---- MODULE Spec2Model ----
(***************************************************************************)
(* State-machine model of the snaky-social-hub backend: the storage module *)
(* (MockDatabase / SQLDatabase), the credential module (password digest,   *)
(* JWT issue / decode), auth resolution (get_current_user) and the API     *)
(* handlers of the auth and leaderboard routers.                           *)
(***************************************************************************)
EXTENDS Integers, Sequences, FiniteSets, TLC

(***************************************************************************)
(* Bounds of the model.                                                    *)
(***************************************************************************)
MaxUsers == 2
MaxSubmissions == 2
MaxTokens == 1
MaxTickOffset == 2
MaxLifetimes == 1
MaxClockSteps == 2
MaxHeaderLen == 4
MaxScore == 1
TicksPerSecond == 2

(***************************************************************************)
(* Program constants.                                                      *)
(***************************************************************************)
ACCESS_TOKEN_EXPIRE_MINUTES == 10080

\* Python's None where the other values are objects (a user, a payload).
None == [py |-> "None"]

\* An Optional[str] argument: Absent when it is None, Given(s) otherwise.
Absent == <<>>
Given(s) == <<s>>


(***************************************************************************)
(* Generic helpers.                                                        *)
(***************************************************************************)
Put(f, k, v) == [x \in DOMAIN f \cup {k} |-> IF x = k THEN v ELSE f[x]]

Range(s) == {s[i] : i \in DOMAIN s}

(***************************************************************************)
(* Calendar: a date is the number of days since 1970-01-01, computed from  *)
(* year, month and day as datetime.strptime(...).date() parses them.       *)
(***************************************************************************)
DayNumber(y, m, d) ==
    LET yy  == IF m <= 2 THEN y - 1 ELSE y
        era == yy \div 400
        yoe == yy - era * 400
        mp  == (m + 9) % 12
        doy == (153 * mp + 2) \div 5 + d - 1
        doe == yoe * 365 + yoe \div 4 - yoe \div 100 + doy
    IN  era * 146097 + doe - 719468

\* The day on which the process is started (after the seeded dates).
ProcessStartDay == DayNumber(2026, 2, 20)

TicksPerDay == 24 * 60 * 60 * TicksPerSecond

\* Default token lifetime, in clock ticks.
TokenLifetimeTicks == ACCESS_TOKEN_EXPIRE_MINUTES * 60 * TicksPerSecond

(***************************************************************************)
(* Request inputs.  A string the validation layer measures is given with   *)
(* its length.                                                             *)
(***************************************************************************)
Usernames == {"eve", "bob", ""}

\* The signup and login requests of the model: <<username, email,
\* password>> and <<email, password>>.
SignupInputs ==
    {<<"eve", "eve@x.com", "secret1">>,
     <<"bob", "eve@X.com", "hunter22">>,
     <<"bob", "bob@x.com", "hunter22">>,
     <<"", "bob@x.com", "12345">>,
     <<"eve", "not-an-email", "secret1">>}

LoginInputs ==
    {<<"eve@x.com", "secret1">>,
     <<"eve@X.com", "hunter22">>,
     <<"bob@x.com", "hunter22">>,
     <<"bob@x.com", "12345">>,
     <<"not-an-email", "secret1">>}

StrLen(s) ==
    CASE s = ""         -> 0
      [] s = "eve"      -> 3
      [] s = "bob"      -> 3
      [] s = "12345"    -> 5
      [] s = "secret1"  -> 7
      [] s = "hunter22" -> 8

\* pydantic EmailStr: rejects a string that is not an address and returns
\* the normalised address otherwise (domain part lower-cased, local part
\* kept as written).
EmailWellFormed(e) == e # "not-an-email"

NormalizeEmail(e) == IF e = "eve@X.com" THEN "eve@x.com" ELSE e

\* UserCreate: username 1..255 characters, EmailStr, password >= 6.
UserCreateValid(username, email, password) ==
    /\ StrLen(username) >= 1
    /\ StrLen(username) <= 255
    /\ EmailWellFormed(email)
    /\ StrLen(password) >= 6

\* UserLogin: EmailStr, any password string.
UserLoginValid(email, password) == EmailWellFormed(email)

(***************************************************************************)
(* Credential module: password digest.  sha256 is modelled as an injective *)
(* tagging of its input (no collisions among the passwords of the model).  *)
(***************************************************************************)
\* Variant: the digest of a constant, whatever the password.
hash_password_OfConstant(password) == <<"sha256", "">>

hash_password(password) == <<"sha256", password>>

\* Variant: the stored digest only tested for being there.
verify_password_AnyPassword(plain_password, hashed_password) ==
    hashed_password # <<>>

verify_password(plain_password, hashed_password) ==
    <<"sha256", plain_password>> = hashed_password

(***************************************************************************)
(* State.                                                                  *)
(***************************************************************************)
VARIABLES
    backend,         \* "mock" or "sql": which storage class `db` is
    users,           \* MockDatabase.users / the users table: id -> user
    users_by_email,  \* MockDatabase.users_by_email: email -> user
    leaderboard,     \* MockDatabase.leaderboard / the leaderboard table
    live_games,      \* MockDatabase.live_games / the live_games table
    now,             \* wall clock, in ticks since process start
    issued,          \* tokens made by create_access_token, with issue time
    signups,         \* log of the signups answered 201, in order
    pending,         \* signups between their existence check and creation
    authorization,   \* Authorization header of the request being resolved
    last,            \* the latest request and its response
    test_db,         \* the instance a test fixture put in app.database.db
    logged_out       \* header of the latest logout answered 200

vars == <<backend, users, users_by_email, leaderboard, live_games, now,
          issued, signups, pending, authorization, last, test_db,
          logged_out>>



(***************************************************************************)
(* str(uuid.uuid4()): a string no earlier call returned.  The n-th id      *)
(* drawn for a collection is the text of <<collection, n>>; no collection  *)
(* ever loses an element that got its id this way.                         *)
(***************************************************************************)
uuid4(collection, n) == ToString(<<collection, n>>)

(***************************************************************************)
(* Seed data of both storage classes.                                      *)
(***************************************************************************)
mock_leaderboard == <<
    <<"PixelViper",   8950, "walls",        DayNumber(2026, 2, 19)>>,
    <<"ShadowMaster", 8420, "walls",        DayNumber(2026, 2, 18)>>,
    <<"NeonByte",     7850, "pass-through", DayNumber(2026, 2, 19)>>,
    <<"CyberSnake",   7620, "walls",        DayNumber(2026, 2, 19)>>,
    <<"RetroGlitch",  7340, "pass-through", DayNumber(2026, 2, 18)>>,
    <<"ArcadeKing",   6890, "walls",        DayNumber(2026, 2, 17)>>,
    <<"GlowWorm",     6750, "pass-through", DayNumber(2026, 2, 19)>>,
    <<"BitCrusher",   6520, "walls",        DayNumber(2026, 2, 18)>>,
    <<"VoidRunner",   6180, "pass-through", DayNumber(2026, 2, 17)>>,
    <<"PhosphorGlow", 5940, "walls",        DayNumber(2026, 2, 19)>>,
    <<"EchoKnight",   5670, "pass-through", DayNumber(2026, 2, 16)>>,
    <<"IceVenom",     5420, "walls",        DayNumber(2026, 2, 18)>>,
    <<"NovaStrike",   5180, "pass-through", DayNumber(2026, 2, 19)>>,
    <<"HexEngineer",  4950, "walls",        DayNumber(2026, 2, 17)>>,
    <<"FrostByte",    4720, "pass-through", DayNumber(2026, 2, 18)>>,
    <<"ThunderSnake", 4580, "walls",        DayNumber(2026, 2, 19)>>,
    <<"CrimsonWave",  4320, "pass-through", DayNumber(2026, 2, 16)>>,
    <<"SilentViper",  4150, "walls",        DayNumber(2026, 2, 15)>>,
    <<"LunarEcho",    3920, "pass-through", DayNumber(2026, 2, 19)>>,
    <<"InfernoPath",  3750, "walls",        DayNumber(2026, 2, 18)>> >>

\* startedAt: <<day, minute of the day (UTC)>>.
mock_games == <<
    <<"game_001", "PixelViper",   890,  "walls",        <<DayNumber(2026, 2, 19), 615>> >>,
    <<"game_002", "ShadowMaster", 650,  "pass-through", <<DayNumber(2026, 2, 19), 622>> >>,
    <<"game_003", "NeonByte",     1240, "walls",        <<DayNumber(2026, 2, 19), 605>> >>,
    <<"game_004", "CyberSnake",   520,  "pass-through", <<DayNumber(2026, 2, 19), 628>> >>,
    <<"game_005", "RetroGlitch",  780,  "walls",        <<DayNumber(2026, 2, 19), 618>> >>,
    <<"game_006", "ArcadeKing",   310,  "pass-through", <<DayNumber(2026, 2, 19), 632>> >>,
    <<"game_007", "GlowWorm",     1050, "walls",        <<DayNumber(2026, 2, 19), 610>> >>,
    <<"game_008", "BitCrusher",   420,  "pass-through", <<DayNumber(2026, 2, 19), 625>> >> >>

User(id, username, email, password_hash) ==
    [id |-> id, username |-> username, email |-> email,
     password_hash |-> password_hash]

LeaderboardEntry(id, username, score, mode, entry_date) ==
    [id |-> id, username |-> username, score |-> score, mode |-> mode,
     date |-> entry_date]

LiveGameRecord(id, username, score, mode, started_at) ==
    [id |-> id, username |-> username, score |-> score, mode |-> mode,
     startedAt |-> started_at]

\* The leaderboard after _seed_data: one entry per seed row, in row order,
\* each with a fresh uuid.
SeededLeaderboard ==
    [i \in 1..Len(mock_leaderboard) |->
        LeaderboardEntry(uuid4("entry", i), mock_leaderboard[i][1],
                         mock_leaderboard[i][2], mock_leaderboard[i][3],
                         mock_leaderboard[i][4])]

\* The live games after _seed_data, keyed by the id of the seed row.
SeededLiveGames ==
    [g \in {mock_games[i][1] : i \in 1..Len(mock_games)} |->
        LET i == CHOOSE j \in 1..Len(mock_games) : mock_games[j][1] = g
        IN  LiveGameRecord(g, mock_games[i][2], mock_games[i][3],
                           mock_games[i][4], mock_games[i][5])]

EmptyMap == <<>>

(***************************************************************************)
(* User operations of the two storage classes.  Each reads the state and   *)
(* the mutating ones give the new values of the collections.               *)
(***************************************************************************)
\* Variant: the membership test done on the dict keyed by id.
Mock_user_exists_by_email_ById(email) == email \in DOMAIN users

Mock_user_exists_by_email(email) == email \in DOMAIN users_by_email

Mock_get_user_by_email(email) ==
    IF email \in DOMAIN users_by_email THEN users_by_email[email] ELSE None

\* Variant: the id looked up in the dict keyed by email.
Mock_get_user_by_id_ByEmail(user_id) ==
    IF user_id \in DOMAIN users_by_email THEN users_by_email[user_id] ELSE None

Mock_get_user_by_id(user_id) ==
    IF user_id \in DOMAIN users THEN users[user_id] ELSE None

\* Rows of the users table with the given email (at most one while the
\* unique constraint on users.email is in force).
SQL_rows_by_email(email) == {id \in DOMAIN users : users[id].email = email}

SQL_user_exists_by_email(email) == SQL_rows_by_email(email) # {}

SQL_get_user_by_email(email) ==
    IF SQL_rows_by_email(email) = {} THEN None
    ELSE users[CHOOSE id \in SQL_rows_by_email(email) : TRUE]

\* Variant: the first row of the table, the filter on the id left out.
SQL_get_user_by_id_AnyRow(user_id) ==
    IF DOMAIN users = {} THEN None
    ELSE users[CHOOSE id \in DOMAIN users : TRUE]

SQL_get_user_by_id(user_id) ==
    IF user_id \in DOMAIN users THEN users[user_id] ELSE None

\* UserORM.email is declared unique=True: the commit of a second row with
\* the same email raises IntegrityError and stores nothing.
SQL_email_unique_violated(email) == SQL_rows_by_email(email) # {}

\* `db`: the storage instance selected at import time.
db_user_exists_by_email(email) ==
    IF backend = "mock" THEN Mock_user_exists_by_email(email)
    ELSE SQL_user_exists_by_email(email)

db_get_user_by_email(email) ==
    IF backend = "mock" THEN Mock_get_user_by_email(email)
    ELSE SQL_get_user_by_email(email)

db_get_user_by_id(user_id) ==
    IF backend = "mock" THEN Mock_get_user_by_id(user_id)
    ELSE SQL_get_user_by_id(user_id)

\* create_user: the stored user, and the collections after the call.  On
\* the SQL backend the call raises when the email is already stored.
create_user_raises(email) ==
    backend = "sql" /\ SQL_email_unique_violated(email)

create_user_result(username, email, password_hash) ==
    User(uuid4("user", Cardinality(DOMAIN users) + 1), username, email,
         password_hash)

\* Variant: the two dicts assigned anew, holding the new user only.
Mock_create_user_Replaces(username, email, password_hash) ==
    LET user == create_user_result(username, email, password_hash)
    IN  /\ users' = Put(EmptyMap, user.id, user)
        /\ users_by_email' = Put(EmptyMap, email, user)

Mock_create_user(username, email, password_hash) ==
    LET user == create_user_result(username, email, password_hash)
    IN  /\ users' = Put(users, user.id, user)
        /\ users_by_email' = Put(users_by_email, email, user)

SQL_create_user(username, email, password_hash) ==
    LET user == create_user_result(username, email, password_hash)
    IN  /\ users_by_email' = users_by_email
        /\ IF SQL_email_unique_violated(email)
           THEN users' = users
           ELSE users' = Put(users, user.id, user)

db_create_user(username, email, password_hash) ==
    IF backend = "mock" THEN Mock_create_user(username, email, password_hash)
    ELSE SQL_create_user(username, email, password_hash)

(***************************************************************************)
(* A further SQLDatabase instance, as a value: its tables after __init__,  *)
(* and its user operations.  The ids it generates are uuids, different     *)
(* from those of any other instance.                                       *)
(***************************************************************************)
FreshSQLDatabase ==
    [users |-> EmptyMap, leaderboard |-> SeededLeaderboard,
     live_games |-> SeededLiveGames]

SQLDatabase_get_user_by_id(self, user_id) ==
    IF user_id \in DOMAIN self.users THEN self.users[user_id] ELSE None

SQLDatabase_get_user_by_email(self, email) ==
    LET rows == {id \in DOMAIN self.users : self.users[id].email = email}
    IN  IF rows = {} THEN None ELSE self.users[CHOOSE id \in rows : TRUE]

\* The outcome of create_user on the instance: whether the commit raised
\* IntegrityError (users.email is unique), the user returned, and the
\* instance afterwards.
SQLDatabase_create_user(self, username, email, password_hash) ==
    LET user == User(uuid4("test_db.user",
                           Cardinality(DOMAIN self.users) + 1),
                     username, email, password_hash)
    IN  IF SQLDatabase_get_user_by_email(self, email) # None
        THEN [raised |-> TRUE, user |-> None, self |-> self]
        ELSE [raised |-> FALSE, user |-> user,
              self |-> [self EXCEPT !.users = Put(self.users, user.id, user)]]

\* `database.db`, read at the time of the call: the instance a test fixture
\* put there, `db` otherwise.
database_db_get_user_by_id(user_id) ==
    IF test_db = None THEN db_get_user_by_id(user_id)
    ELSE SQLDatabase_get_user_by_id(test_db, user_id)


(***************************************************************************)
(* Credential module: tokens.  A token is a word of the header; `jwt` says *)
(* whether it has the structure of a JWT, `sig` whether its signature was  *)
(* made with JWT_SECRET_KEY, `claims` is its payload (a dict: a claim that *)
(* is absent is not in its domain).  Times: `now` counts ticks, the `exp`  *)
(* claim is in whole seconds.                                              *)
(***************************************************************************)
Token(sig, claims) == [jwt |-> TRUE, sig |-> sig, claims |-> claims]

\* A word that is no JWT at all ("invalid_token", "garbage", "Bearer").
NotAJwt == [jwt |-> FALSE, sig |-> "none", claims |-> <<>>]

\* jose.jwt.encode turns a datetime `exp` into whole seconds with
\* timegm(exp.utctimetuple()), which drops the fraction of the second.
timegm(ticks) == ticks \div TicksPerSecond

\* expires_delta is Optional: Absent when omitted, Given(d) when passed
\* (d in ticks).  `if expires_delta:` is false for None and for a zero
\* timedelta.
create_access_token(data, expires_delta, clock) ==
    LET expire == IF expires_delta # Absent /\ expires_delta[1] # 0
                  THEN clock + expires_delta[1]
                  ELSE clock + TokenLifetimeTicks
        to_encode == [k \in DOMAIN data \cup {"exp"} |->
                         IF k = "exp" THEN timegm(expire) ELSE data[k]]
    IN  Token("good", to_encode)

\* jose.jwt.decode: signature check, then `exp < now` (both in whole
\* seconds) raises ExpiredSignatureError; every JWTError gives None.
\* Variant: a token counted as expired from the second of its `exp` on.
decode_token_ExpiredAtExp(token, clock) ==
    IF ~token.jwt \/ token.sig # "good" THEN None
    ELSE IF "exp" \in DOMAIN token.claims /\ token.claims.exp <= timegm(clock)
         THEN None
         ELSE token.claims

decode_token(token, clock) ==
    IF ~token.jwt \/ token.sig # "good" THEN None
    ELSE IF "exp" \in DOMAIN token.claims /\ token.claims.exp < timegm(clock)
         THEN None
         ELSE token.claims

(***************************************************************************)
(* Authorization header.  A present header is a sequence of chunks: a      *)
(* chunk is a whitespace character or a maximal run of other characters (a *)
(* word), so no two words are adjacent.  A word has its text and what it   *)
(* is as a token.                                                          *)
(***************************************************************************)
Space(c) == [text |-> c, tok |-> NotAJwt]
Word(text) == [text |-> text, tok |-> NotAJwt]
JwtWord(token) == [text |-> "<jwt>", tok |-> token]

SP == Space(" ")
TAB == Space("\t")

\* str.isspace for one chunk.
IsSpace(c) == c.text \in {" ", "\t"}

\* Variant: the scheme compared as it was sent.
Lower_AsSent(text) == text

\* str.lower.
Lower(text) ==
    CASE text = "Bearer" -> "bearer"
      [] text = "BEARER" -> "bearer"
      [] text = "Basic"  -> "basic"
      [] OTHER           -> text

\* str.split() without argument: the words of the string, separated by
\* runs of whitespace; leading and trailing whitespace gives no word.
Split(authz) == SelectSeq(authz, LAMBDA c : ~IsSpace(c))

BearerHeader(token) == <<Word("Bearer"), SP, JwtWord(token)>>

(***************************************************************************)
(* Auth resolution.  The result is the user for a return, and the status   *)
(* and detail of the HTTPException for a raise; `decoded` tells whether    *)
(* decode_token was called.                                                *)
(***************************************************************************)
AuthRaise(status, detail, decoded) ==
    [status |-> status, detail |-> detail, user |-> None, decoded |-> decoded]

AuthReturn(user) ==
    [status |-> 200, detail |-> "", user |-> user, decoded |-> TRUE]

\* Variant: a header that is not "Bearer <token>" treated like a missing one
\* (what fastapi.security.HTTPBearer does).
get_current_user_NotBearerAs403(authz) ==
    IF authz = Absent
    THEN AuthRaise(403, "No credentials provided", FALSE)
    ELSE LET parts == Split(authz[1]) IN
    IF Len(parts) # 2 \/ Lower(parts[1].text) # "bearer"
    THEN AuthRaise(403, "Invalid authorization header format", FALSE)
    ELSE LET payload == decode_token(parts[2].tok, now) IN
    IF payload = None
    THEN AuthRaise(401, "Invalid authentication token", TRUE)
    ELSE IF "sub" \notin DOMAIN payload
    THEN AuthRaise(401, "Invalid token claims", TRUE)
    ELSE LET user == database_db_get_user_by_id(payload.sub) IN
    IF user = None
    THEN AuthRaise(401, "User not found", TRUE)
    ELSE AuthReturn(user)

\* Variant: a token presented at a logout is refused afterwards.
get_current_user_RevokedAtLogout(authz) ==
    IF authz = Absent
    THEN AuthRaise(403, "No credentials provided", FALSE)
    ELSE IF authz = logged_out
    THEN AuthRaise(401, "Token revoked", TRUE)
    ELSE LET parts == Split(authz[1]) IN
    IF Len(parts) # 2 \/ Lower(parts[1].text) # "bearer"
    THEN AuthRaise(401, "Invalid authorization header format", FALSE)
    ELSE LET payload == decode_token(parts[2].tok, now) IN
    IF payload = None
    THEN AuthRaise(401, "Invalid authentication token", TRUE)
    ELSE IF "sub" \notin DOMAIN payload
    THEN AuthRaise(401, "Invalid token claims", TRUE)
    ELSE LET user == database_db_get_user_by_id(payload.sub) IN
    IF user = None
    THEN AuthRaise(401, "User not found", TRUE)
    ELSE AuthReturn(user)

get_current_user(authz) ==
    IF authz = Absent
    THEN AuthRaise(403, "No credentials provided", FALSE)
    ELSE LET parts == Split(authz[1]) IN
    IF Len(parts) # 2 \/ Lower(parts[1].text) # "bearer"
    THEN AuthRaise(401, "Invalid authorization header format", FALSE)
    ELSE LET payload == decode_token(parts[2].tok, now) IN
    IF payload = None
    THEN AuthRaise(401, "Invalid authentication token", TRUE)
    ELSE IF "sub" \notin DOMAIN payload
    THEN AuthRaise(401, "Invalid token claims", TRUE)
    ELSE LET user == database_db_get_user_by_id(payload.sub) IN
    IF user = None
    THEN AuthRaise(401, "User not found", TRUE)
    ELSE AuthReturn(user)

\* Variant: any two-word header taken as scheme and token.
get_optional_current_user_AnyScheme(authz) ==
    IF authz = Absent THEN None
    ELSE LET parts == Split(authz[1]) IN
    IF Len(parts) # 2 THEN None
    ELSE LET payload == decode_token(parts[2].tok, now) IN
    IF payload = None THEN None
    ELSE IF "sub" \notin DOMAIN payload THEN None
    ELSE database_db_get_user_by_id(payload.sub)

\* Variant: the scheme compared as sent, without lower().
get_optional_current_user_SchemeAsSent(authz) ==
    IF authz = Absent THEN None
    ELSE LET parts == Split(authz[1]) IN
    IF Len(parts) # 2 \/ parts[1].text # "Bearer" THEN None
    ELSE LET payload == decode_token(parts[2].tok, now) IN
    IF payload = None THEN None
    ELSE IF "sub" \notin DOMAIN payload THEN None
    ELSE database_db_get_user_by_id(payload.sub)

get_optional_current_user(authz) ==
    IF authz = Absent THEN None
    ELSE LET parts == Split(authz[1]) IN
    IF Len(parts) # 2 \/ Lower(parts[1].text) # "bearer" THEN None
    ELSE LET payload == decode_token(parts[2].tok, now) IN
    IF payload = None THEN None
    ELSE IF "sub" \notin DOMAIN payload THEN None
    ELSE database_db_get_user_by_id(payload.sub)


(***************************************************************************)
(* Leaderboard operations.  `if mode:` is false for None and for the empty *)
(* string.                                                                 *)
(***************************************************************************)
ModeGiven(mode) == mode # Absent /\ mode[1] # ""

FilterByMode(entries, mode) ==
    IF ModeGiven(mode)
    THEN SelectSeq(entries, LAMBDA e : e.mode = mode[1])
    ELSE entries

\* Number of entries of a sequence whose score is at least `score`.
CountAtLeast(entries, score) ==
    Cardinality({i \in DOMAIN entries : entries[i].score >= score})

\* Variant: a sort that is not stable, an entry put before those of its
\* score.
RECURSIVE SortByScoreDesc_NewestFirst(_)
SortByScoreDesc_NewestFirst(entries) ==
    IF entries = <<>> THEN <<>>
    ELSE LET n      == Len(entries)
             e      == entries[n]
             sorted == SortByScoreDesc_NewestFirst(SubSeq(entries, 1, n - 1))
             k      == CountAtLeast(sorted, e.score + 1)
         IN  SubSeq(sorted, 1, k) \o <<e>> \o SubSeq(sorted, k + 1, n - 1)

\* list.sort(key=lambda x: x.score, reverse=True): descending by score,
\* stable (entries with equal scores keep the order they had in the list).
RECURSIVE SortByScoreDesc(_)
SortByScoreDesc(entries) ==
    IF entries = <<>> THEN <<>>
    ELSE LET n      == Len(entries)
             e      == entries[n]
             sorted == SortByScoreDesc(SubSeq(entries, 1, n - 1))
             k      == CountAtLeast(sorted, e.score)
         IN  SubSeq(sorted, 1, k) \o <<e>> \o SubSeq(sorted, k + 1, n - 1)

\* Variant: the entries returned in the order of the list, without the sort.
Mock_get_all_leaderboard_entries_Unsorted(mode) ==
    FilterByMode(leaderboard, mode)

Mock_get_all_leaderboard_entries(mode) ==
    SortByScoreDesc(FilterByMode(leaderboard, mode))

\* ORDER BY score DESC names no second key: the engine may return rows of
\* equal score in any order, and need not repeat the order it chose before.
\* InsertAmongEqual: the ways to put one more row into an ordered result.
InsertAmongEqual(rows, e) ==
    LET hi == Cardinality({i \in DOMAIN rows : rows[i].score > e.score})
        ge == CountAtLeast(rows, e.score)
    IN  {SubSeq(rows, 1, k) \o <<e>> \o SubSeq(rows, k + 1, Len(rows)) :
            k \in hi..ge}

RECURSIVE OrderByScoreDesc(_)
OrderByScoreDesc(rows) ==
    IF rows = <<>> THEN {<<>>}
    ELSE LET n == Len(rows)
         IN  UNION {InsertAmongEqual(o, rows[n]) :
                        o \in OrderByScoreDesc(SubSeq(rows, 1, n - 1))}

SQL_get_all_leaderboard_entries(mode) ==
    OrderByScoreDesc(FilterByMode(leaderboard, mode))

\* The listings a call of db.get_all_leaderboard_entries can return.
db_get_all_leaderboard_entries(mode) ==
    IF backend = "mock" THEN {Mock_get_all_leaderboard_entries(mode)}
    ELSE SQL_get_all_leaderboard_entries(mode)

\* add_leaderboard_entry of both classes: a new row with a fresh id is
\* appended; nothing else is touched.
add_leaderboard_entry_result(username, score, mode, entry_date) ==
    LeaderboardEntry(uuid4("entry", Len(leaderboard) + 1), username, score,
                     mode, entry_date)

\* Variant: one entry per username, the new one taking the place of the old.
db_add_leaderboard_entry_OnePerUser(username, score, mode, entry_date) ==
    leaderboard' = Append(
        SelectSeq(leaderboard, LAMBDA e : e.username # username),
        add_leaderboard_entry_result(username, score, mode, entry_date))

db_add_leaderboard_entry(username, score, mode, entry_date) ==
    leaderboard' = Append(leaderboard,
        add_leaderboard_entry_result(username, score, mode, entry_date))

\* date.today()
today == ProcessStartDay + now \div TicksPerDay


(***************************************************************************)
(* API layer.  `last` keeps the request and the response of the latest     *)
(* request: status, detail, X-Error-Code header and body.                  *)
(***************************************************************************)
Response(op, req, status, detail, code, body) ==
    [op |-> op, req |-> req, status |-> status, detail |-> detail,
     code |-> code, body |-> body]

NoRequest == Response("none", None, 0, "", "", None)

\* models.User: the user without its password hash.
PublicUser(user) ==
    [id |-> user.id, username |-> user.username, email |-> user.email]

Workers == {1, 2}

Idle == [w \in Workers |-> None]

\* Time passes between requests.  Between the requests of the API it is
\* half a default token lifetime and a second, MaxClockSteps times: a token
\* is still valid after one such step and expired after two.
HalfLifetimeAndASecond == TokenLifetimeTicks \div 2 + TicksPerSecond

Tick ==
    /\ now + HalfLifetimeAndASecond <= MaxClockSteps * HalfLifetimeAndASecond
    /\ now' = now + HalfLifetimeAndASecond
    /\ UNCHANGED <<test_db, logged_out, backend, users, users_by_email, leaderboard, live_games,
                   issued, signups, pending, authorization, last>>

(***************************************************************************)
(* POST /api/auth/signup                                                   *)
(***************************************************************************)
SignupRequest(username, email, password) ==
    [username |-> username, email |-> email, password |-> password]

\* The part of signup after the existence check: hash, create, respond.
\* An exception of create_user escapes the handler (500).
SignupCreateUser(req, email) ==
    /\ Cardinality(DOMAIN users) < MaxUsers
    /\ db_create_user(req.username, email, hash_password(req.password))
    /\ IF create_user_raises(email)
       THEN /\ last' = Response("signup", req, 500, "Internal Server Error",
                                "", None)
            /\ signups' = signups
       ELSE LET user == create_user_result(req.username, email,
                                           hash_password(req.password))
            IN  /\ last' = Response("signup", req, 201, "", "",
                                    PublicUser(user))
                /\ signups' = Append(signups,
                       [email |-> email, sent |-> req.email,
                        password |-> req.password, id |-> user.id])

\* Variant: a signup for a stored email answered 409 after the stored
\* account has taken the password of the request.
Signup_DuplicateTakesPassword(username, email, password) ==
    LET req == SignupRequest(username, email, password)
        user_data_email == NormalizeEmail(email)
        taken(u) == IF u.email = user_data_email
                    THEN [u EXCEPT !.password_hash = hash_password(password)]
                    ELSE u
    IN  /\ IF ~UserCreateValid(username, email, password)
           THEN /\ last' = Response("signup", req, 422, "validation error",
                                    "", None)
                /\ UNCHANGED <<users, users_by_email, signups>>
           ELSE IF db_user_exists_by_email(user_data_email)
           THEN /\ last' = Response("signup", req, 409,
                                    "Email already exists",
                                    "EMAIL_DUPLICATE", None)
                /\ users' = [id \in DOMAIN users |-> taken(users[id])]
                /\ users_by_email' =
                       [e \in DOMAIN users_by_email |->
                           taken(users_by_email[e])]
                /\ signups' = signups
           ELSE SignupCreateUser(req, user_data_email)
        /\ UNCHANGED <<test_db, logged_out, backend, leaderboard, live_games,
                       now, issued, pending, authorization>>

\* The whole handler, run without interruption.
Signup(username, email, password) ==
    LET req == SignupRequest(username, email, password)
        user_data_email == NormalizeEmail(email)
    IN  /\ IF ~UserCreateValid(username, email, password)
           THEN /\ last' = Response("signup", req, 422, "validation error",
                                    "", None)
                /\ UNCHANGED <<users, users_by_email, signups>>
           ELSE IF db_user_exists_by_email(user_data_email)
           THEN /\ last' = Response("signup", req, 409,
                                    "Email already exists",
                                    "EMAIL_DUPLICATE", None)
                /\ UNCHANGED <<users, users_by_email, signups>>
           ELSE SignupCreateUser(req, user_data_email)
        /\ UNCHANGED <<test_db, logged_out, backend, leaderboard, live_games, now, issued,
                       pending, authorization>>

\* The handler in two steps, for requests that are processed concurrently:
\* first the validation and the existence check ...
SignupCheck(w, username, email, password) ==
    LET req == SignupRequest(username, email, password)
        user_data_email == NormalizeEmail(email)
    IN  /\ pending[w] = None
        /\ IF ~UserCreateValid(username, email, password)
           THEN /\ last' = Response("signup", req, 422, "validation error",
                                    "", None)
                /\ pending' = pending
           ELSE IF db_user_exists_by_email(user_data_email)
           THEN /\ last' = Response("signup", req, 409,
                                    "Email already exists",
                                    "EMAIL_DUPLICATE", None)
                /\ pending' = pending
           ELSE /\ pending' = [pending EXCEPT ![w] = req]
                /\ last' = last
        /\ UNCHANGED <<test_db, logged_out, backend, users, users_by_email, leaderboard,
                       live_games, now, issued, signups,
                       authorization>>

\* ... then the creation of the user and the response.
SignupCreate(w) ==
    /\ pending[w] # None
    /\ SignupCreateUser(pending[w], NormalizeEmail(pending[w].email))
    /\ pending' = [pending EXCEPT ![w] = None]
    /\ UNCHANGED <<test_db, logged_out, backend, leaderboard, live_games, now, issued,
                   authorization>>

(***************************************************************************)
(* POST /api/auth/login                                                    *)
(***************************************************************************)
LoginRequest(email, password) == [email |-> email, password |-> password]

InvalidCredentials(req) ==
    Response("login", req, 401, "Invalid email or password",
             "INVALID_CREDENTIALS", None)

Login(email, password) ==
    LET req == LoginRequest(email, password)
        user == db_get_user_by_email(NormalizeEmail(email))
    IN  /\ IF ~UserLoginValid(email, password)
           THEN last' = Response("login", req, 422, "validation error", "",
                                 None)
           ELSE IF user = None
           THEN last' = InvalidCredentials(req)
           ELSE IF ~verify_password(password, user.password_hash)
           THEN last' = InvalidCredentials(req)
           ELSE LET token == create_access_token([sub |-> user.id], Absent, now)
                IN  last' = Response("login", req, 200, "", "",
                                     [user |-> PublicUser(user),
                                      token |-> token])
        /\ UNCHANGED <<test_db, logged_out, backend, users, users_by_email, leaderboard,
                       live_games, now, issued, signups, pending,
                       authorization>>


(***************************************************************************)
(* Headers of the requests.  login changes nothing in the store and the    *)
(* token it returns is determined by the user and the clock: the requests  *)
(* carry the tokens login gives for the stored users at the clock values   *)
(* up to now, and words made without login: no JWT, claims signed with the *)
(* configured secret that login would not produce, and another scheme.     *)
(***************************************************************************)
ClockValues == {k * HalfLifetimeAndASecond : k \in 0..MaxClockSteps}

LoginToken(user_id, clock) ==
    create_access_token([sub |-> user_id], Absent, clock)

\* A token is expired two clock steps after the login that gave it, and
\* older ones are expired like it.
LoginTokens ==
    {LoginToken(id, t) :
        id \in DOMAIN users,
        t \in {c \in ClockValues :
                  c <= now /\ now <= c + 2 * HalfLifetimeAndASecond}}

FarFuture == timegm(TokenLifetimeTicks * (MaxLifetimes + 2))

TokenNoSub == Token("good", [exp |-> FarFuture])
TokenUnknownSub == Token("good", [sub |-> "no-such-user", exp |-> FarFuture])

RequestHeaders ==
    {Absent, Given(BearerHeader(NotAJwt)), Given(BearerHeader(TokenNoSub)),
     Given(BearerHeader(TokenUnknownSub)),
     Given(<<Word("Basic"), SP, JwtWord(TokenUnknownSub)>>)}
    \cup {Given(BearerHeader(t)) : t \in LoginTokens}

AuthFailure(op, req, auth) ==
    Response(op, req, auth.status, auth.detail, "", None)

(***************************************************************************)
(* POST /api/auth/logout and GET /api/auth/me                              *)
(***************************************************************************)
Logout(authz) ==
    LET req == [authorization |-> authz]
        current_user == get_current_user(authz)
    IN  /\ IF current_user.status # 200
           THEN /\ last' = AuthFailure("logout", req, current_user)
                /\ logged_out' = logged_out
           ELSE /\ last' = Response("logout", req, 200, "", "",
                                    [message |-> "Logged out successfully"])
                /\ logged_out' = authz
        /\ UNCHANGED <<test_db, backend, users, users_by_email, leaderboard,
                       live_games, now, issued, signups, pending,
                       authorization>>

GetMe(authz) ==
    LET req == [authorization |-> authz]
        current_user == get_current_user(authz)
    IN  /\ IF current_user.status # 200
           THEN last' = AuthFailure("me", req, current_user)
           ELSE last' = Response("me", req, 200, "", "",
                                 PublicUser(current_user.user))
        /\ UNCHANGED <<test_db, logged_out, backend, users, users_by_email, leaderboard,
                       live_games, now, issued, signups, pending,
                       authorization>>

(***************************************************************************)
(* GET /api/leaderboard and POST /api/leaderboard                          *)
(***************************************************************************)
QueryModes == {Absent, Given("walls"), Given("pass-through"),
               Given("invalid")}

GetLeaderboard(mode) ==
    LET req == [mode |-> mode]
    IN  /\ IF mode # Absent /\ mode[1] \notin {"pass-through", "walls"}
           THEN last' = Response("get_leaderboard", req, 400,
                                 "Invalid game mode", "", None)
           ELSE \E entries \in db_get_all_leaderboard_entries(mode) :
                    last' = Response("get_leaderboard", req, 200, "", "",
                                     entries)
        /\ UNCHANGED <<test_db, logged_out, backend, users, users_by_email, leaderboard,
                       live_games, now, issued, signups, pending,
                       authorization>>

\* The bodies of POST /api/leaderboard of the model: <<score, mode>>.
SubmitInputs == {<<9000, "walls">>, <<-1, "walls">>, <<9000, "invalid">>}

\* Variant: the request model without its Field constraints.
SubmitScoreValid_Unconstrained(score, mode) == TRUE

\* SubmitScoreRequest: score >= 0, mode matching ^(pass-through|walls)$
\* (pydantic's regex engine: $ matches at the end of the string only).
SubmitScoreValid(score, mode) ==
    score >= 0 /\ mode \in {"pass-through", "walls"}

\* The dependency is resolved before the body is validated, and the body
\* before the handler runs.
SubmitScore(authz, score, mode) ==
    LET req == [authorization |-> authz, score |-> score, mode |-> mode]
        current_user == get_current_user(authz)
    IN  /\ IF current_user.status # 200
           THEN /\ last' = AuthFailure("submit_score", req, current_user)
                /\ leaderboard' = leaderboard
           ELSE IF ~SubmitScoreValid(score, mode)
           THEN /\ last' = Response("submit_score", req, 422,
                                    "validation error", "", None)
                /\ leaderboard' = leaderboard
           ELSE IF score < 0
           THEN /\ last' = Response("submit_score", req, 400,
                                    "Invalid score value", "INVALID_INPUT",
                                    None)
                /\ leaderboard' = leaderboard
           ELSE IF mode \notin {"pass-through", "walls"}
           THEN /\ last' = Response("submit_score", req, 400,
                                    "Invalid game mode", "INVALID_INPUT",
                                    None)
                /\ leaderboard' = leaderboard
           ELSE /\ Len(leaderboard) < Len(mock_leaderboard) + MaxSubmissions
                /\ db_add_leaderboard_entry(current_user.user.username,
                                            score, mode, today)
                /\ last' = Response("submit_score", req, 201, "", "",
                       add_leaderboard_entry_result(
                           current_user.user.username, score, mode, today))
        /\ UNCHANGED <<test_db, logged_out, backend, users, users_by_email, live_games, now,
                       issued, signups, pending, authorization>>

(***************************************************************************)
(* Live-game operations of the storage classes.  Both keep one game per    *)
(* id (a dict keyed by id, a table with id as primary key); the listing is *)
(* given as the set of the stored games, its order (insertion order of the *)
(* dict, unspecified for the table) left out.                              *)
(***************************************************************************)
\* Variant: the listing made from the seed data.
db_get_all_live_games_Seeded ==
    {SeededLiveGames[g] : g \in DOMAIN SeededLiveGames}

db_get_all_live_games == {live_games[g] : g \in DOMAIN live_games}

\* Variant: the lookup made in the seed data.
db_get_live_game_by_id_Seeded(game_id) ==
    IF game_id \in DOMAIN SeededLiveGames THEN SeededLiveGames[game_id]
    ELSE None

db_get_live_game_by_id(game_id) ==
    IF game_id \in DOMAIN live_games THEN live_games[game_id] ELSE None

\* LiveGameORM.id is the primary key: on the SQL backend the commit of a
\* second row with a stored id raises IntegrityError and stores nothing;
\* the dict of the Mock backend takes the new game in place of the old.
add_live_game_raises(game_id) ==
    backend = "sql" /\ game_id \in DOMAIN live_games

db_add_live_game(game_id, username, score, mode, started_at) ==
    IF add_live_game_raises(game_id)
    THEN live_games' = live_games
    ELSE live_games' =
             Put(live_games, game_id,
                 LiveGameRecord(game_id, username, score, mode, started_at))

\* Variant: the delete made without the filter on the id.
db_remove_live_game_All(game_id) ==
    IF game_id \in DOMAIN live_games THEN live_games' = EmptyMap
    ELSE live_games' = live_games

db_remove_live_game(game_id) ==
    live_games' = [g \in DOMAIN live_games \ {game_id} |-> live_games[g]]

(***************************************************************************)
(* GET /api/games and GET /api/games/{game_id}.  The handlers read         *)
(* `database.db`, which is `db` while no fixture has replaced it.  The     *)
(* response model LiveGame requires score >= 0: building it from a stored  *)
(* game with a negative score raises and the request is answered 500.      *)
(***************************************************************************)
get_live_games ==
    LET games == db_get_all_live_games
    IN  IF \E game \in games : game.score < 0
        THEN Response("get_live_games", None, 500, "Internal Server Error",
                      "", None)
        ELSE Response("get_live_games", None, 200, "", "", games)

get_game_by_id(game_id) ==
    LET req  == [game_id |-> game_id]
        game == db_get_live_game_by_id(game_id)
    IN  IF game = None
        THEN Response("get_game_by_id", req, 404, "Game not found",
                      "NOT_FOUND", None)
        ELSE IF game.score < 0
        THEN Response("get_game_by_id", req, 500, "Internal Server Error",
                      "", None)
        ELSE Response("get_game_by_id", req, 200, "", "", game)

\* Variant: the listing that empties the collection it has read.
GetLiveGames_Drains ==
    /\ last' = get_live_games
    /\ live_games' = EmptyMap
    /\ UNCHANGED <<test_db, logged_out, backend, users, users_by_email,
                   leaderboard, now, issued, signups, pending,
                   authorization>>

GetLiveGames ==
    /\ last' = get_live_games
    /\ UNCHANGED <<test_db, logged_out, backend, users, users_by_email,
                   leaderboard, live_games, now, issued, signups, pending,
                   authorization>>

\* Variant: the game taken out of the store by the request that reads it.
GetGameById_Pops(game_id) ==
    /\ last' = get_game_by_id(game_id)
    /\ db_remove_live_game(game_id)
    /\ UNCHANGED <<test_db, logged_out, backend, users, users_by_email,
                   leaderboard, now, issued, signups, pending,
                   authorization>>

GetGameById(game_id) ==
    /\ last' = get_game_by_id(game_id)
    /\ UNCHANGED <<test_db, logged_out, backend, users, users_by_email,
                   leaderboard, live_games, now, issued, signups, pending,
                   authorization>>

(***************************************************************************)
(* add_live_game and remove_live_game, which no handler calls: the calls   *)
(* made on `db` directly, `last` keeping the arguments and what the call   *)
(* returned (status 500 for a call that raised).                           *)
(***************************************************************************)
AddLiveGame(game_id, username, score, mode, started_at) ==
    LET req == [game_id |-> game_id, username |-> username, score |-> score,
                mode |-> mode, started_at |-> started_at]
    IN  /\ db_add_live_game(game_id, username, score, mode, started_at)
        /\ last' = IF add_live_game_raises(game_id)
                   THEN Response("add_live_game", req, 500, "IntegrityError",
                                 "", None)
                   ELSE Response("add_live_game", req, 0, "", "",
                                 LiveGameRecord(game_id, username, score,
                                                mode, started_at))
        /\ UNCHANGED <<test_db, logged_out, backend, users, users_by_email,
                       leaderboard, now, issued, signups, pending,
                       authorization>>

RemoveLiveGame(game_id) ==
    /\ db_remove_live_game(game_id)
    /\ last' = Response("remove_live_game", [game_id |-> game_id], 0, "", "",
                        game_id \in DOMAIN live_games)
    /\ UNCHANGED <<test_db, logged_out, backend, users, users_by_email,
                   leaderboard, now, issued, signups, pending,
                   authorization>>

(***************************************************************************)
(* The system: the requests of the API, each handled without interruption  *)
(* (the handlers are coroutines without an await), and the clock.          *)
(***************************************************************************)
\* Variant: seed data that holds a user.
Init_WithSeededUser ==
    LET user == User(uuid4("user", 1), "eve", "eve@x.com",
                     hash_password("secret1"))
    IN  /\ backend \in {"mock", "sql"}
        /\ users = Put(EmptyMap, user.id, user)
        /\ users_by_email = IF backend = "mock"
                            THEN Put(EmptyMap, user.email, user)
                            ELSE EmptyMap
        /\ leaderboard = SeededLeaderboard
        /\ live_games = SeededLiveGames
        /\ now = 0
        /\ issued = {}
        /\ signups = <<>>
        /\ pending = Idle
        /\ authorization = Absent
        /\ last = NoRequest
        /\ test_db = None
        /\ logged_out = Absent

Init ==
    /\ backend \in {"mock", "sql"}
    /\ users = EmptyMap
    /\ users_by_email = EmptyMap
    /\ leaderboard = SeededLeaderboard
    /\ live_games = SeededLiveGames
    /\ now = 0
    /\ issued = {}
    /\ signups = <<>>
    /\ pending = Idle
    /\ authorization = Absent
    /\ last = NoRequest
    /\ test_db = None
    /\ logged_out = Absent

DoSignup == \E i \in SignupInputs : Signup(i[1], i[2], i[3])
DoLogin == \E i \in LoginInputs : Login(i[1], i[2])
DoLogout == \E h \in RequestHeaders : Logout(h)
DoGetMe == \E h \in RequestHeaders : GetMe(h)
DoGetLeaderboard == \E m \in QueryModes : GetLeaderboard(m)
DoSubmitScore == \E h \in RequestHeaders, i \in SubmitInputs :
                     SubmitScore(h, i[1], i[2])

Next ==
    \/ DoSignup
    \/ DoLogin
    \/ DoLogout
    \/ DoGetMe
    \/ DoGetLeaderboard
    \/ DoSubmitScore
    \/ Tick

Spec == Init /\ [][Next]_vars

\* The requests of routers/auth.py.
NextAuth ==
    \/ DoSignup
    \/ DoLogin
    \/ DoLogout
    \/ DoGetMe
    \/ Tick

SpecAuth == Init /\ [][NextAuth]_vars

\* The requests of routers/leaderboard.py, by callers that signed up.
NextBoard ==
    \/ DoSignup
    \/ DoGetLeaderboard
    \/ DoSubmitScore
    \/ Tick

SpecBoard == Init /\ [][NextBoard]_vars

(***************************************************************************)
(* Signups processed concurrently: the existence check and the creation of *)
(* one request are separate steps, and steps of the two workers interleave *)
(* in any order.                                                           *)
(***************************************************************************)
DoSignupCheck == \E w \in Workers, i \in SignupInputs :
                     SignupCheck(w, i[1], i[2], i[3])
DoSignupCreate == \E w \in Workers : SignupCreate(w)

NextRace ==
    \/ DoSignupCheck
    \/ DoSignupCreate

SpecRace == Init /\ [][NextRace]_vars

(***************************************************************************)
(* get_current_user as a function of the header, the store and the clock.  *)
(* The header is any string of up to MaxHeaderLen chunks, or one of the    *)
(* bearer headers with a token of each kind; the store holds no user or    *)
(* the first user that signed up.                                          *)
(***************************************************************************)
FirstUser ==
    User(uuid4("user", 1), "eve", "eve@x.com", hash_password("secret1"))

TokenOfFirstUser == LoginToken(FirstUser.id, 0)
TokenExpired == Token("good", [sub |-> FirstUser.id, exp |-> 0 - 1])
TokenBadSignature == Token("bad", TokenOfFirstUser.claims)

HeaderChunks ==
    {SP, TAB, Word("Bearer"), Word("BEARER"), Word("Basic"),
     JwtWord(TokenOfFirstUser)}

\* A chunk sequence is a string when its words are maximal.
WordsMaximal(h) ==
    \A i \in 1..(Len(h) - 1) : IsSpace(h[i]) \/ IsSpace(h[i + 1])

HeaderStrings ==
    {h \in UNION {[1..n -> HeaderChunks] : n \in 0..MaxHeaderLen} :
        WordsMaximal(h)}

HeaderInputs ==
    {Absent}
    \cup {Given(h) : h \in HeaderStrings}
    \cup {Given(BearerHeader(t)) :
            t \in {NotAJwt, TokenBadSignature, TokenExpired, TokenNoSub,
                   TokenUnknownSub}}

InitHeader ==
    /\ backend \in {"mock", "sql"}
    /\ users \in {EmptyMap, Put(EmptyMap, FirstUser.id, FirstUser)}
    /\ users_by_email =
           IF backend = "mock" /\ users # EmptyMap
           THEN Put(EmptyMap, FirstUser.email, FirstUser)
           ELSE EmptyMap
    /\ leaderboard = SeededLeaderboard
    /\ live_games = SeededLiveGames
    /\ now = 0
    /\ issued = {}
    /\ signups = <<>>
    /\ pending = Idle
    /\ authorization \in HeaderInputs
    /\ last = NoRequest
    /\ test_db = None
    /\ logged_out = Absent

ResolveHeader ==
    LET current_user == get_current_user(authorization)
    IN  /\ last' = Response("get_current_user",
                            [authorization |-> authorization],
                            current_user.status, current_user.detail, "",
                            current_user)
        /\ UNCHANGED <<test_db, logged_out, backend, users, users_by_email, leaderboard,
                       live_games, now, issued, signups, pending,
                       authorization>>

\* The optional dependency returns where the strict one raises; status 0
\* stands for "no HTTPException".
ResolveHeaderOptional ==
    /\ last' = Response("get_optional_current_user",
                        [authorization |-> authorization], 0, "", "",
                        get_optional_current_user(authorization))
    /\ UNCHANGED <<test_db, logged_out, backend, users, users_by_email,
                   leaderboard, live_games, now, issued, signups, pending,
                   authorization>>

NextHeader ==
    \/ ResolveHeader
    \/ ResolveHeaderOptional

SpecHeader == InitHeader /\ [][NextHeader]_vars

(***************************************************************************)
(* create_access_token and decode_token as functions of the subject and    *)
(* the clock: tokens are made for any subject at any moment and decoded at *)
(* any later moment.  The clock is followed tick by tick for MaxTickOffset *)
(* ticks from the start and from the tick before each whole number of      *)
(* default lifetimes.                                                      *)
(***************************************************************************)
Subjects == {"user-a", "user-b"}

FineClockSteps == {1, TokenLifetimeTicks - 1}

FineClockInBounds(t) ==
    /\ (t + 1) % TokenLifetimeTicks <= MaxTickOffset + 1
    /\ (t + 1) \div TokenLifetimeTicks <= MaxLifetimes

TickFine(d) ==
    /\ FineClockInBounds(now + d)
    /\ now' = now + d
    /\ UNCHANGED <<test_db, logged_out, backend, users, users_by_email, leaderboard, live_games,
                   issued, signups, pending, authorization, last>>

IssueToken(u) ==
    LET token == create_access_token([sub |-> u], Absent, now)
        grant == [token |-> token, sub |-> u, at |-> now]
    IN  /\ grant \in issued \/ Cardinality(issued) < MaxTokens
        /\ issued' = issued \cup {grant}
        /\ last' = Response("create_access_token", grant, 0, "", "", None)
        /\ UNCHANGED <<test_db, logged_out, backend, users, users_by_email, leaderboard,
                       live_games, now, signups, pending, authorization>>

DecodeToken(grant) ==
    /\ last' = Response("decode_token",
                        [token |-> grant.token, sub |-> grant.sub,
                         at |-> grant.at, clock |-> now],
                        0, "", "", decode_token(grant.token, now))
    /\ UNCHANGED <<test_db, logged_out, backend, users, users_by_email, leaderboard, live_games,
                   now, issued, signups, pending, authorization>>

\* hash_password and verify_password as functions: a password is hashed and
\* a password is verified against the digest.
VerifyPassword(password, plain_password) ==
    /\ last' = Response("verify_password",
                        [password |-> password,
                         plain_password |-> plain_password], 0, "", "",
                        [hashed_password |-> hash_password(password),
                         verified |-> verify_password(plain_password,
                                          hash_password(password))])
    /\ UNCHANGED <<test_db, logged_out, backend, users, users_by_email,
                   leaderboard, live_games, now, issued, signups, pending,
                   authorization>>

\* create_access_token as a function of its two arguments and the clock.
CreateAccessToken(data, expires_delta) ==
    /\ last' = Response("create_access_token(data, expires_delta)",
                        [data |-> data, expires_delta |-> expires_delta,
                         at |-> now], 0, "", "",
                        create_access_token(data, expires_delta, now))
    /\ UNCHANGED <<test_db, logged_out, backend, users, users_by_email,
                   leaderboard, live_games, now, issued, signups, pending,
                   authorization>>

DoIssueToken == \E u \in Subjects : IssueToken(u)
DoDecodeToken == \E g \in issued : DecodeToken(g)
DoTickFine == \E d \in FineClockSteps : TickFine(d)

NextToken ==
    \/ DoIssueToken
    \/ DoDecodeToken
    \/ DoTickFine
    \/ \E password, plain_password \in {"secret1", "hunter22", "12345", ""} :
           VerifyPassword(password, plain_password)
    \/ \E data \in {[sub |-> "user-a"], [sub |-> "user-a", exp |-> 0]},
          expires_delta \in {Absent} \cup {Given(d) : d \in 0..MaxTickOffset} :
           CreateAccessToken(data, expires_delta)

SpecToken == Init /\ [][NextToken]_vars

(***************************************************************************)
(* submit_score as a function of the caller and the body: scores around 0  *)
(* and modes in and out of the enum, sent by the first user, by a caller   *)
(* with a word that is no token and by a caller without header.            *)
(***************************************************************************)
InitSubmit ==
    /\ backend \in {"mock", "sql"}
    /\ users = Put(EmptyMap, FirstUser.id, FirstUser)
    /\ users_by_email =
           IF backend = "mock" THEN Put(EmptyMap, FirstUser.email, FirstUser)
           ELSE EmptyMap
    /\ leaderboard = SeededLeaderboard
    /\ live_games = SeededLiveGames
    /\ now = 0
    /\ issued = {}
    /\ signups = <<>>
    /\ pending = Idle
    /\ authorization = Absent
    /\ last = NoRequest
    /\ test_db = None
    /\ logged_out = Absent

DoSubmitBody ==
    \E h \in {Absent, Given(BearerHeader(NotAJwt)),
              Given(BearerHeader(TokenOfFirstUser))},
       score \in (0 - 1)..MaxScore,
       mode \in {"walls", "pass-through", "invalid", "", "walls\n"} :
        SubmitScore(h, score, mode)

NextSubmit == DoSubmitBody

SpecSubmit == InitSubmit /\ [][NextSubmit]_vars

(***************************************************************************)
(* A session of the first user: the requests that take a token, and the    *)
(* clock up to the token's expiry.                                         *)
(***************************************************************************)
NextSession ==
    \/ DoLogout
    \/ DoGetMe
    \/ DoSubmitScore
    \/ Tick

SpecSession == InitSubmit /\ [][NextSession]_vars

(***************************************************************************)
(* The integration tests: the client fixture has put a fresh SQLDatabase   *)
(* in app.database.db (and app.dependencies.db); routers/auth.py keeps the *)
(* `db` it imported.  The test_user fixture creates its user in the fresh  *)
(* instance.                                                               *)
(***************************************************************************)
InitFixture ==
    /\ backend \in {"mock", "sql"}
    /\ users = EmptyMap
    /\ users_by_email = EmptyMap
    /\ leaderboard = SeededLeaderboard
    /\ live_games = SeededLiveGames
    /\ now = 0
    /\ issued = {}
    /\ signups = <<>>
    /\ pending = Idle
    /\ authorization = Absent
    /\ last = NoRequest
    /\ test_db = FreshSQLDatabase
    /\ logged_out = Absent

test_user ==
    LET created == SQLDatabase_create_user(test_db, "testuser",
                       "test@example.com", hash_password("testpass123"))
    IN  /\ ~created.raised
        /\ test_db' = created.self
        /\ UNCHANGED <<logged_out, backend, users, users_by_email,
                       leaderboard, live_games, now, issued, signups,
                       pending, authorization, last>>

NextFixture ==
    \/ test_user
    \/ DoSignup
    \/ DoLogin
    \/ DoGetMe

SpecFixture == InitFixture /\ [][NextFixture]_vars

(***************************************************************************)
(* The storage interface called directly, the same call on `db` and on the *)
(* further SQLDatabase instance, both freshly seeded.  `last` keeps the    *)
(* two outcomes: whether the call raised, and what it returned.            *)
(***************************************************************************)
CallCreateUser(username, email, password_hash) ==
    LET req   == [username |-> username, email |-> email,
                  password_hash |-> password_hash]
        on_db == IF create_user_raises(email)
                 THEN [raised |-> TRUE, value |-> None]
                 ELSE [raised |-> FALSE,
                       value |-> create_user_result(username, email,
                                                    password_hash)]
        on_test_db == SQLDatabase_create_user(test_db, username, email,
                                              password_hash)
    IN  /\ Cardinality(DOMAIN users) < MaxUsers
        /\ db_create_user(username, email, password_hash)
        /\ test_db' = on_test_db.self
        /\ last' = Response("create_user", req, 0, "", "",
                            [db |-> on_db,
                             test_db |-> [raised |-> on_test_db.raised,
                                          value |-> on_test_db.user]])
        /\ UNCHANGED <<logged_out, backend, leaderboard, live_games, now,
                       issued, signups, pending, authorization>>

CallGetUserByEmail(email) ==
    /\ last' = Response("get_user_by_email", [email |-> email], 0, "", "",
           [db |-> [raised |-> FALSE, value |-> db_get_user_by_email(email)],
            test_db |-> [raised |-> FALSE,
                         value |-> SQLDatabase_get_user_by_email(test_db,
                                                                 email)]])
    /\ UNCHANGED <<test_db, logged_out, backend, users, users_by_email,
                   leaderboard, live_games, now, issued, signups, pending,
                   authorization>>

\* SQLDatabase.user_exists_by_email is the query of get_user_by_email with
\* `is not None` on its first row.
CallUserExistsByEmail(email) ==
    /\ last' = Response("user_exists_by_email", [email |-> email], 0, "", "",
           [db |-> [raised |-> FALSE,
                    value |-> db_user_exists_by_email(email)],
            test_db |-> [raised |-> FALSE,
                         value |-> SQLDatabase_get_user_by_email(
                                       test_db, email) # None]])
    /\ UNCHANGED <<test_db, logged_out, backend, users, users_by_email,
                   leaderboard, live_games, now, issued, signups, pending,
                   authorization>>

NextStorage ==
    \/ \E i \in SignupInputs :
           CallCreateUser(i[1], i[2], hash_password(i[3]))
    \/ \E i \in SignupInputs : CallGetUserByEmail(i[2])
    \/ \E i \in SignupInputs : CallUserExistsByEmail(i[2])

SpecStorage == InitFixture /\ [][NextStorage]_vars

(***************************************************************************)
(* The live games: the two requests that read them, the two storage calls  *)
(* that write them, and the other requests that read the store.  The games *)
(* added have a score that the data model allows (>= 0).                   *)
(***************************************************************************)
NextGames ==
    \/ GetLiveGames
    \/ \E id \in {"game_001", "game_002", "game_100", "no-such-game"} :
           GetGameById(id)
    \/ \E id \in {"game_001", "game_100"}, score \in {0, 50} :
           AddLiveGame(id, "eve", score, "walls", <<ProcessStartDay, 0>>)
    \/ \E id \in {"game_001", "game_002", "game_100"} : RemoveLiveGame(id)
    \/ DoGetLeaderboard
    \/ DoGetMe
    \/ DoLogin

SpecGames == Init /\ [][NextGames]_vars

(***************************************************************************)
(* The requests of the three routers, at one moment of the clock.          *)
(***************************************************************************)
NextApi ==
    \/ DoSignup
    \/ DoLogin
    \/ DoLogout
    \/ DoGetMe
    \/ DoGetLeaderboard
    \/ DoSubmitScore
    \/ GetLiveGames
    \/ \E id \in {"game_001", "no-such-game"} : GetGameById(id)

SpecApi == Init /\ [][NextApi]_vars

(***************************************************************************)
(* Properties.                                                             *)
(***************************************************************************)
\* Ids of the stored users with the given email.
UsersWithEmail(email) == {id \in DOMAIN users : users[id].email = email}

SignupEmailsDistinct(log) ==
    \A i, j \in DOMAIN log :
        i # j => log[i].email # log[j].email /\ log[i].sent # log[j].sent

\* The step is the handling of a request by `op`.
Handled(op) ==
    /\ last'.op = op
    /\ last' # last \/ users' # users \/ leaderboard' # leaderboard

\* C1: no two signups answered 201 carry the same email, and once a signup
\* with an email has succeeded, every later signup with that email (whose
\* body passes validation) is answered 409 "Email already exists", and no
\* later signup with that email creates a user.
C1_SignupUniqueness ==
    [][/\ SignupEmailsDistinct(signups')
       /\ \A i \in DOMAIN signups :
            (Handled("signup") /\ last'.req.email = signups[i].sent) =>
                /\ users' = users
                /\ users_by_email' = users_by_email
                /\ signups' = signups
                /\ UserCreateValid(last'.req.username, last'.req.email,
                                   last'.req.password) =>
                       /\ last'.status = 409
                       /\ last'.detail = "Email already exists"]_vars

\* A signup was answered 409 after a signup with the same email succeeded.
C1_Witness ==
    /\ last.op = "signup"
    /\ last.status = 409
    /\ \E i \in DOMAIN signups : signups[i].sent = last.req.email

IsSpaceChunk(c) == c = SP

IsWhitespaceChunk(c) == c \in {SP, TAB}

BearerSpellings == {"bearer", "Bearer", "BEARER"}

TokenStarts(h, IsSep(_)) ==
    {i \in DOMAIN h : ~IsSep(h[i]) /\ (i = 1 \/ IsSep(h[i - 1]))}

TokenFrom(h, i, IsSep(_)) ==
    LET stops == {j \in i..Len(h) : j = Len(h) \/ IsSep(h[j + 1])}
        stop  == CHOOSE j \in stops : \A k \in stops : j <= k
    IN  SubSeq(h, i, stop)

\* Exactly two tokens, the first of which is "bearer" in any case.
SchemeAndToken(h, IsSep(_)) ==
    LET starts == TokenStarts(h, IsSep)
    IN  /\ Cardinality(starts) = 2
        /\ LET first == CHOOSE i \in starts : \A k \in starts : i <= k
               scheme == TokenFrom(h, first, IsSep)
           IN  Len(scheme) = 1 /\ scheme[1].text \in BearerSpellings

\* The second of the two words of a header.
CredentialOf(h) ==
    LET starts == TokenStarts(h, IsWhitespaceChunk)
        second == CHOOSE i \in starts : \A k \in starts : i >= k
    IN  h[second].tok

\* The whole second of `exp` has passed, the signature is not made with the
\* secret, or the word is no JWT.
TokenUndecodable(t) ==
    \/ ~t.jwt
    \/ t.sig # "good"
    \/ "exp" \in DOMAIN t.claims /\ (t.claims.exp + 1) * TicksPerSecond <= now

\* C3: get_current_user decides by the first failing check, in the order
\* header absent (403), header malformed (401), token undecodable (401),
\* claims without sub (401), subject not stored (401); the user is returned
\* only when all five pass, and 403 is given for an absent header only.
C3_CheckOrder ==
    last.op = "get_current_user" =>
        LET h == last.req.authorization
            r == last.body
        IN  /\ (r.status = 403) <=> (h = Absent)
            /\ IF h = Absent
               THEN r.detail = "No credentials provided" /\ r.user = None
               ELSE IF ~SchemeAndToken(h[1], IsWhitespaceChunk)
               THEN /\ r.status = 401
                    /\ r.detail = "Invalid authorization header format"
                    /\ r.user = None
               ELSE IF TokenUndecodable(CredentialOf(h[1]))
               THEN /\ r.status = 401
                    /\ r.detail = "Invalid authentication token"
                    /\ r.user = None
               ELSE IF "sub" \notin DOMAIN CredentialOf(h[1]).claims
               THEN /\ r.status = 401
                    /\ r.detail = "Invalid token claims"
                    /\ r.user = None
               ELSE IF CredentialOf(h[1]).claims.sub \notin DOMAIN users
               THEN /\ r.status = 401
                    /\ r.detail = "User not found"
                    /\ r.user = None
               ELSE /\ r.status = 200
                    /\ r.user = users[CredentialOf(h[1]).claims.sub]

\* A header passed the first four checks and failed the fifth.
C3_Witness ==
    /\ last.op = "get_current_user"
    /\ last.body.status = 401
    /\ last.body.detail = "User not found"

C5_ExpiresWithTheSecond ==
    last.op = "decode_token" =>
        LET q      == last.req
            expiry == q.at + TokenLifetimeTicks
            valid  == last.body # None
        IN  /\ q.clock < expiry => valid
            /\ valid <=> q.clock \div TicksPerSecond <= expiry \div TicksPerSecond
            /\ valid => last.body.sub = q.sub

\* A token decoded to its claims after issuance + 7 days.
C5_Witness ==
    /\ last.op = "decode_token"
    /\ last.body # None
    /\ last.req.clock > last.req.at + TokenLifetimeTicks

\* C5 as stated: the token decodes to sub = u at every moment before
\* issuance + 7 days and to None at every moment after it.
C5_ExpiresAtSevenDays ==
    last.op = "decode_token" =>
        LET q      == last.req
            expiry == q.at + TokenLifetimeTicks
            valid  == last.body # None
        IN  /\ q.clock < expiry => valid /\ last.body.sub = q.sub
            /\ q.clock > expiry => ~valid

\* C6: after a successful signup with (e, p), login with (e, p) is answered
\* 200 with the signed-up user and a token, and /me with a token that login
\* gave for that user is answered 200 with the id that signup returned, at
\* any later point of any run, as long as the token has not expired.
C6_SignupLoginMe ==
    [][\A i \in DOMAIN signups :
        /\ ( /\ Handled("login")
             /\ last'.req.email = signups[i].sent
             /\ last'.req.password = signups[i].password ) =>
                /\ last'.status = 200
                /\ last'.body.user.id = signups[i].id
                /\ last'.body.token = LoginToken(signups[i].id, now)
        /\ ( /\ Handled("me")
             /\ \E t \in ClockValues :
                    /\ t <= now
                    /\ now < t + TokenLifetimeTicks
                    /\ last'.req.authorization =
                           Given(BearerHeader(LoginToken(signups[i].id, t))) ) =>
                /\ last'.status = 200
                /\ last'.body.id = signups[i].id]_vars

\* /me answered with the signed-up user for a token of an earlier login,
\* after a second signup and after time has passed.
C6_Witness ==
    /\ last.op = "me"
    /\ last.status = 200
    /\ now > 0
    /\ Len(signups) = 2
    /\ last.body.id = signups[1].id
    /\ last.req.authorization =
           Given(BearerHeader(LoginToken(signups[1].id, 0)))

\* C7: a login whose body passes validation is answered 401 exactly when no
\* stored user has the email or the password does not hash to that user's
\* stored digest, and every 401 has the same status, detail, X-Error-Code
\* and body, whichever of the two it was.
C7_LoginFailureUniform ==
    (last.op = "login" /\ UserLoginValid(last.req.email, last.req.password)) =>
        LET known == {id \in DOMAIN users :
                         users[id].email = NormalizeEmail(last.req.email)}
            match == {id \in known :
                         users[id].password_hash
                             = hash_password(last.req.password)}
        IN  /\ (last.status = 401) <=> (known = {} \/ match = {})
            /\ last.status = 401 =>
                   /\ last.detail = "Invalid email or password"
                   /\ last.code = "INVALID_CREDENTIALS"
                   /\ last.body = None
            /\ last.status \in {200, 401}

\* A login with the email of a stored user and another password got 401.
C7_Witness ==
    /\ last.op = "login"
    /\ last.status = 401
    /\ \E id \in DOMAIN users :
           users[id].email = NormalizeEmail(last.req.email)

\* C8: the listing holds every stored entry (of the mode asked for, when
\* one is given) exactly once and nothing else, and the score of each
\* listed entry is >= the score of the next.
C8_ListingSortedAndComplete ==
    (last.op = "get_leaderboard" /\ last.status = 200) =>
        LET m      == last.req.mode
            body   == last.body
            wanted == {i \in DOMAIN leaderboard :
                          m = Absent \/ leaderboard[i].mode = m[1]}
        IN  /\ Len(body) = Cardinality(wanted)
            /\ \A i \in wanted : \E j \in DOMAIN body : body[j] = leaderboard[i]
            /\ \A j, k \in DOMAIN body : j # k => body[j] # body[k]
            /\ \A j \in 1..(Len(body) - 1) : body[j].score >= body[j + 1].score

\* A listing by mode in which a submitted entry stands before seeded ones.
C8_Witness ==
    /\ last.op = "get_leaderboard"
    /\ last.status = 200
    /\ last.req.mode = Given("walls")
    /\ \E j \in 1..(Len(last.body) - 1) :
           last.body[j].id \notin {SeededLeaderboard[i].id :
                                      i \in DOMAIN SeededLeaderboard}

\* C9: a listing that directly follows a listing with the same mode filter,
\* with no write in between, returns the same entries in the same order.
C9_RepeatableListing ==
    [][( /\ last.op = "get_leaderboard"
         /\ last'.op = "get_leaderboard"
         /\ last.status = 200
         /\ last'.status = 200
         /\ last'.req = last.req
         /\ leaderboard' = leaderboard ) => last'.body = last.body]_vars

\* Number of entries of a board that carry the username.
EntriesOf(board, username) ==
    Cardinality({i \in DOMAIN board : board[i].username = username})

\* C10: no request changes or removes a stored entry; a submission answered
\* 201 adds one entry for the caller and keeps the caller's earlier ones;
\* an unfiltered listing holds every stored entry unchanged.
C10_AppendOnly ==
    [][/\ \A i \in DOMAIN leaderboard :
              i \in DOMAIN leaderboard' /\ leaderboard'[i] = leaderboard[i]
       /\ (Handled("submit_score") /\ last'.status = 201) =>
              /\ EntriesOf(leaderboard', last'.body.username)
                     = EntriesOf(leaderboard, last'.body.username) + 1
              /\ last'.body \in Range(leaderboard')
              /\ last'.body \notin Range(leaderboard)
       /\ ( /\ last'.op = "get_leaderboard"
            /\ last'.status = 200
            /\ last'.req.mode = Absent ) =>
              \A i \in DOMAIN leaderboard' :
                  \E j \in DOMAIN last'.body : last'.body[j] = leaderboard'[i]]_vars

\* An unfiltered listing with two entries submitted by one user.
C10_Witness ==
    /\ last.op = "get_leaderboard"
    /\ last.status = 200
    /\ last.req.mode = Absent
    /\ \E j, k \in DOMAIN last.body :
           /\ j # k
           /\ last.body[j].username = last.body[k].username
           /\ last.body[j].username \in Usernames

\* The ids of the seeded leaderboard entries.
SeededEntryIds == {SeededLeaderboard[i].id : i \in DOMAIN SeededLeaderboard}

\* C11: the entry made by a submission answered 201 carries the username
\* of the user the request's token resolves to and the submitted score and
\* mode, and it is the entry that was stored; with several users submitting
\* in any order every submitted entry carries the username of a stored user.
C11_EntryAttributedToCaller ==
    /\ (last.op = "submit_score" /\ last.status = 201) =>
           LET sub   == CredentialOf(last.req.authorization[1]).claims.sub
               entry == leaderboard[Len(leaderboard)]
           IN  /\ sub \in DOMAIN users
               /\ last.body.username = users[sub].username
               /\ last.body.score = last.req.score
               /\ last.body.mode = last.req.mode
               /\ entry = last.body
    /\ \A i \in DOMAIN leaderboard :
           leaderboard[i].id \notin SeededEntryIds =>
               \E id \in DOMAIN users :
                   users[id].username = leaderboard[i].username

\* Two users with different usernames have each submitted an entry.
C11_Witness ==
    /\ last.op = "submit_score"
    /\ last.status = 201
    /\ \E i, j \in DOMAIN leaderboard :
           /\ leaderboard[i].id \notin SeededEntryIds
           /\ leaderboard[j].id \notin SeededEntryIds
           /\ leaderboard[i].username # leaderboard[j].username

\* C12: an authenticated submission with a negative score or with a mode
\* other than "walls" and "pass-through" is answered 422, never 400 and
\* never 201; one with a score >= 0 (0 included) and a mode of the enum is
\* answered 201.
C12_InvalidBodyIs422 ==
    last.op = "submit_score" =>
        /\ last.status # 400
        /\ last.status \notin {401, 403} =>
               IF last.req.score < 0
                  \/ last.req.mode \notin {"walls", "pass-through"}
               THEN last.status = 422
               ELSE last.status = 201

\* A submission of score 0 was accepted and stored.
C12_Witness ==
    /\ last.op = "submit_score"
    /\ last.status = 201
    /\ last.req.score = 0
    /\ Len(leaderboard) = Len(SeededLeaderboard) + 1

\* C13: logout does not invalidate the token.  A request to GET /me, POST
\* /logout or POST /leaderboard that carries the header of a logout answered
\* 200 is, as long as the token has not expired, authenticated as the
\* token's user: /me returns that user, /logout answers 200, and the
\* submission is not refused for its credentials and is stored under that
\* user's name.
C13_TokenSurvivesLogout ==
    [][(/\ logged_out # Absent
        /\ last' # last
        /\ last'.op \in {"me", "logout", "submit_score"}
        /\ last'.req.authorization = logged_out
        /\ ~TokenUndecodable(CredentialOf(logged_out[1])))
       => LET sub == CredentialOf(logged_out[1]).claims.sub IN
          /\ sub \in DOMAIN users
          /\ last'.op = "me" =>
                 last'.status = 200 /\ last'.body = PublicUser(users[sub])
          /\ last'.op = "logout" => last'.status = 200
          /\ last'.op = "submit_score" =>
                 /\ last'.status \in {201, 422}
                 /\ last'.status = 201 =>
                        last'.body.username = users[sub].username]_vars

\* A submission with the header of an earlier logout was stored, after the
\* clock moved.
C13_Witness ==
    /\ logged_out # Absent
    /\ last.op = "submit_score"
    /\ last.status = 201
    /\ last.req.authorization = logged_out
    /\ now > 0

\* C14: get_optional_current_user never raises.  It returns None for an
\* absent header, a header that is not two words with the scheme "bearer",
\* a token that does not decode, claims without sub and a subject that is
\* not stored; it returns the stored user, and only then a user, when the
\* header carries a valid token of a stored user.
C14_OptionalNeverRaises ==
    last.op = "get_optional_current_user" =>
        LET h == last.req.authorization
            valid == /\ h # Absent
                     /\ SchemeAndToken(h[1], IsWhitespaceChunk)
                     /\ ~TokenUndecodable(CredentialOf(h[1]))
                     /\ "sub" \in DOMAIN CredentialOf(h[1]).claims
                     /\ CredentialOf(h[1]).claims.sub \in DOMAIN users
        IN  /\ last.status = 0
            /\ last.body = IF valid
                           THEN users[CredentialOf(h[1]).claims.sub]
                           ELSE None

\* The optional dependency returned the stored user.
C14_Witness ==
    /\ last.op = "get_optional_current_user"
    /\ last.body = FirstUser

\* C15 (as stated): with app.database.db replaced by a fresh instance D, a
\* signup answered 201 leaves in D a user that D.get_user_by_id(returned id)
\* returns with the submitted username and email, and D.get_user_by_email
\* of the email returns a user with that id.
C15_SignupStoredInFixtureDb ==
    (test_db # None /\ last.op = "signup" /\ last.status = 201) =>
        LET by_id    == SQLDatabase_get_user_by_id(test_db, last.body.id)
            by_email == SQLDatabase_get_user_by_email(test_db,
                                                      last.req.email)
        IN  /\ by_id # None
            /\ by_id.username = last.req.username
            /\ by_id.email = last.req.email
            /\ by_email # None
            /\ by_email.id = last.body.id

\* C16 (as stated): from freshly seeded stores, the same sequence of
\* storage calls has the same outcome on MockDatabase and on SQLDatabase:
\* both raise or both return, and the values returned have the same fields,
\* the generated id apart.
C16_BackendsEquivalent ==
    (backend = "mock"
     /\ last.op \in {"create_user", "get_user_by_email",
                     "user_exists_by_email"}) =>
        LET mock == last.body.db
            sql  == last.body.test_db
        IN  /\ mock.raised = sql.raised
            /\ IF last.op = "user_exists_by_email"
               THEN mock.value = sql.value
               ELSE /\ (mock.value = None) <=> (sql.value = None)
                    /\ mock.value # None /\ sql.value # None =>
                           /\ mock.value.username = sql.value.username
                           /\ mock.value.email = sql.value.email
                           /\ mock.value.password_hash =
                                  sql.value.password_hash

C18_ListedGamesFetchable ==
    (last.op = "get_live_games" /\ last.status = 200) =>
        /\ \A g \in last.body :
               LET one == get_game_by_id(g.id) IN
               /\ one.status = 200
               /\ one.body.id = g.id
               /\ one.body.username = g.username
               /\ one.body.score = g.score
               /\ one.body.mode = g.mode
               /\ one.body.startedAt = g.startedAt
        /\ get_live_games.status = 200
        /\ {g.id : g \in get_live_games.body} = {g.id : g \in last.body}

\* A list was returned that holds an added game and lacks a seeded one.
C18_Witness ==
    /\ last.op = "get_live_games"
    /\ last.status = 200
    /\ \E g \in last.body : g.id \notin DOMAIN SeededLiveGames
    /\ \E id \in DOMAIN SeededLiveGames : \A g \in last.body : g.id # id

\* C19: GET /games/{id} is a repeatable read.  The answer just given is the
\* answer the same request would get next, and no read request (GET
\* /games/{id}, GET /games, GET /leaderboard, GET /me, POST /login) changes
\* the answer to GET /games/{id} for any id: however many reads come in
\* between, two requests for one id with no write between them get the same
\* status and payload.
C19_RepeatableGameRead ==
    [][last'.op \in {"get_game_by_id", "get_live_games", "get_leaderboard",
                     "me", "login"} =>
          \A id \in DOMAIN SeededLiveGames \cup {"game_100", "no-such-game"} :
              /\ get_game_by_id(id)' = get_game_by_id(id)
              /\ (last'.op = "get_game_by_id" /\ last'.req.game_id = id) =>
                     get_game_by_id(id)' = last']_vars

\* An added game was read, after the store was written to.
C19_Witness ==
    /\ last.op = "get_game_by_id"
    /\ last.status = 200
    /\ last.req.game_id \notin DOMAIN SeededLiveGames
    /\ DOMAIN SeededLiveGames \ DOMAIN live_games # {}

\* C20: remove_live_game(id) returns true exactly when a game with that id
\* was stored just before the call; after the call get_live_game_by_id(id)
\* is None and the id is not in get_all_live_games(); the games with other
\* ids are the same as before; and a remove_live_game(id) that follows
\* another one for the same id returns false.
C20_RemoveLiveGame ==
    [][\A id \in DOMAIN SeededLiveGames \cup {"game_100"} :
          (last'.op = "remove_live_game" /\ last'.req.game_id = id) =>
          /\ last'.body = (id \in DOMAIN live_games)
          /\ db_get_live_game_by_id(id)' = None
          /\ \A g \in db_get_all_live_games' : g.id # id
          /\ DOMAIN live_games' = DOMAIN live_games \ {id}
          /\ \A g \in DOMAIN live_games' : live_games'[g] = live_games[g]
          /\ (last.op = "remove_live_game" /\ last.req.game_id = id) =>
                 last'.body = FALSE]_vars

\* A stored game was removed (the call returned true) and others remain.
C20_Witness ==
    /\ last.op = "remove_live_game"
    /\ last.body = TRUE
    /\ last.req.game_id \notin DOMAIN live_games
    /\ DOMAIN live_games # {}

\* C21: users are immutable and never removed.  A signup answered 201 has
\* stored a user with the returned id, the submitted username, the email of
\* the request and the digest of its password, and every request leaves
\* every stored user in place: get_user_by_id of its id and
\* get_user_by_email of its email return it afterwards as before, with the
\* same id, username, email and password hash.
C21_UsersImmutable ==
    [][/\ \A id \in DOMAIN users :
              /\ db_get_user_by_id(id)' = users[id]
              /\ db_get_user_by_email(users[id].email)' = users[id]
       /\ (Handled("signup") /\ last'.status = 201) =>
              \E id \in DOMAIN users' \ DOMAIN users :
                  /\ id = last'.body.id
                  /\ users'[id] =
                         User(id, last'.req.username,
                              NormalizeEmail(last'.req.email),
                              hash_password(last'.req.password))]_vars

\* The first of two users logs in after the second signed up and after
\* time has passed.
C21_Witness ==
    /\ Len(signups) = 2
    /\ now > 0
    /\ last.op = "login"
    /\ last.status = 200
    /\ last.body.user.id = signups[1].id

C23_IndexesConsistent ==
    backend = "mock" =>
        /\ \A id \in DOMAIN users :
               /\ users[id].email \in DOMAIN users_by_email
               /\ users_by_email[users[id].email] = users[id]
        /\ \A email \in DOMAIN users_by_email :
               /\ users_by_email[email].id \in DOMAIN users
               /\ users[users_by_email[email].id] = users_by_email[email]
        /\ Cardinality(DOMAIN users) = Cardinality(DOMAIN users_by_email)

\* C24: the store changes only through a signup answered 201, which adds
\* exactly one user and nothing else, and a submission answered 201, which
\* adds exactly one entry and nothing else.  Every other request, and so
\* every request answered 400, 401, 403, 404, 409 or 422, leaves the users,
\* the entries and the live games as they were, and no request changes the
\* live games.
C24_FrameOfRequests ==
    [][/\ live_games' = live_games
       /\ (users' # users \/ users_by_email' # users_by_email) =>
              /\ last'.op = "signup"
              /\ last'.status = 201
              /\ leaderboard' = leaderboard
              /\ Cardinality(DOMAIN users') = Cardinality(DOMAIN users) + 1
              /\ \A id \in DOMAIN users :
                     id \in DOMAIN users' /\ users'[id] = users[id]
       /\ leaderboard' # leaderboard =>
              /\ last'.op = "submit_score"
              /\ last'.status = 201
              /\ users' = users
              /\ users_by_email' = users_by_email
              /\ Len(leaderboard') = Len(leaderboard) + 1
              /\ SubSeq(leaderboard', 1, Len(leaderboard)) = leaderboard
       /\ (last' # last /\ last'.status \in {400, 401, 403, 404, 409, 422}) =>
              /\ users' = users
              /\ users_by_email' = users_by_email
              /\ leaderboard' = leaderboard]_vars

\* A request was refused after a user and an entry had been added.
C24_Witness ==
    /\ last.status \in {401, 404, 409, 422}
    /\ DOMAIN users # {}
    /\ Len(leaderboard) > Len(SeededLeaderboard)

\* C25: a signup answered 409 leaves the existing account untouched.  The
\* store is unchanged by it, and the login that follows it for that email
\* is answered 200 with the original user (id and username) when it carries
\* the password the account was created with, and 401 when it carries
\* another one, the password of the rejected signup included.
C25_RejectedSignupLeavesAccount ==
    [][\A i \in DOMAIN signups :
        /\ ( /\ Handled("signup")
             /\ last'.status = 409
             /\ NormalizeEmail(last'.req.email) = signups[i].email ) =>
                /\ users' = users
                /\ users_by_email' = users_by_email
                /\ signups' = signups
        /\ ( /\ last.op = "signup"
             /\ last.status = 409
             /\ NormalizeEmail(last.req.email) = signups[i].email
             /\ Handled("login")
             /\ UserLoginValid(last'.req.email, last'.req.password)
             /\ NormalizeEmail(last'.req.email) = signups[i].email ) =>
                IF last'.req.password = signups[i].password
                THEN /\ last'.status = 200
                     /\ last'.body.user.id = signups[i].id
                     /\ last'.body.user = PublicUser(users[signups[i].id])
                ELSE last'.status = 401]_vars

\* A signup was answered 409 for a stored email, with a password other than
\* that of the account.
C25_Witness ==
    /\ last.op = "signup"
    /\ last.status = 409
    /\ \E i \in DOMAIN signups :
           /\ signups[i].email = NormalizeEmail(last.req.email)
           /\ signups[i].password # last.req.password

\* C26: get_current_user and get_optional_current_user agree on every
\* header and store: the optional one returns user U exactly when the
\* strict one returns U, and None exactly when the strict one raises 403 or
\* 401.
C26_StrictAndOptionalAgree ==
    /\ last.op = "get_current_user" =>
           LET optional == get_optional_current_user(last.req.authorization)
           IN  /\ last.body.status \in {200, 401, 403}
               /\ last.body.status = 200 => optional = last.body.user
               /\ last.body.status \in {401, 403} => optional = None
    /\ last.op = "get_optional_current_user" =>
           LET strict == get_current_user(last.req.authorization)
           IN  /\ last.body # None =>
                      strict.status = 200 /\ strict.user = last.body
               /\ last.body = None => strict.status \in {401, 403}

\* The optional dependency returned None for a header with scheme and
\* token, for which the strict one raises 401.
C26_Witness ==
    /\ last.op = "get_optional_current_user"
    /\ last.body = None
    /\ last.req.authorization # Absent
    /\ SchemeAndToken(last.req.authorization[1], IsWhitespaceChunk)
    /\ get_current_user(last.req.authorization).status = 401

\* C27 (as stated): create_access_token sets the expiry to the moment of
\* issuance + expires_delta whenever an expires_delta is passed, a zero delta
\* included, and to issuance + 7 days only when it is omitted; an `exp` in
\* the data is replaced by that expiry.  (The expiry is carried in whole
\* seconds.)
C27_ExpiryIsIssuancePlusDelta ==
    last.op = "create_access_token(data, expires_delta)" =>
        LET q == last.req
            expire == IF q.expires_delta = Absent
                      THEN q.at + TokenLifetimeTicks
                      ELSE q.at + q.expires_delta[1]
        IN  /\ last.body.claims.exp = timegm(expire)
            /\ last.body.claims.sub = q.data.sub

\* C28: in MockDatabase the listing for a mode m is the listing without
\* mode with the entries of other modes taken out, in the same relative
\* order, and entries of equal score are listed in the order in which they
\* were added; GET /leaderboard returns that listing.
C28_FilteredIsRestriction ==
    backend = "mock" =>
        LET all == Mock_get_all_leaderboard_entries(Absent)
            added(e) == CHOOSE k \in DOMAIN leaderboard : leaderboard[k] = e
        IN  /\ \A m \in {"walls", "pass-through", "invalid"} :
                   Mock_get_all_leaderboard_entries(Given(m)) =
                       SelectSeq(all, LAMBDA e : e.mode = m)
            /\ \A i, j \in DOMAIN all :
                   (i < j /\ all[i].score = all[j].score) =>
                       added(all[i]) < added(all[j])
            /\ (last.op = "get_leaderboard" /\ last.status = 200) =>
                   /\ last.req.mode = Absent => last.body = all
                   /\ last.req.mode # Absent =>
                          last.body =
                              SelectSeq(all,
                                        LAMBDA e : e.mode = last.req.mode[1])

\* A listing for one mode was returned with two entries of equal score.
C28_Witness ==
    /\ backend = "mock"
    /\ last.op = "get_leaderboard"
    /\ last.status = 200
    /\ last.req.mode = Given("walls")
    /\ \E i, j \in DOMAIN last.body :
           i < j /\ last.body[i].score = last.body[j].score

\* C29: the store starts without users, so nothing authenticates before a
\* signup.  A login answered 200 returns a user that an earlier signup
\* created for the email of the login, and a 200 or 201 of GET /me, POST
\* /logout or POST /leaderboard is given to a token whose subject an
\* earlier signup created.
C29_NoAuthBeforeSignup ==
    /\ (last.op = "login" /\ last.status = 200) =>
           \E i \in DOMAIN signups :
               /\ signups[i].email = NormalizeEmail(last.req.email)
               /\ signups[i].id = last.body.user.id
    /\ (last.op \in {"me", "logout", "submit_score"}
        /\ last.status \in {200, 201}) =>
           \E i \in DOMAIN signups :
               signups[i].id =
                   CredentialOf(last.req.authorization[1]).claims.sub
    /\ signups = <<>> => DOMAIN users = {}

\* The second of two signed-up users was told who it is.
C29_Witness ==
    /\ last.op = "me"
    /\ last.status = 200
    /\ Len(signups) = 2
    /\ last.body.id = signups[2].id

\* C30 (as stated): the store never holds two games with one id, and
\* add_live_game with an id that is already there leaves exactly one game
\* under that id, the one added last, which get_live_game_by_id(id) then
\* returns.
C30_AddKeepsLatest ==
    /\ \A g, h \in db_get_all_live_games : g.id = h.id => g = h
    /\ \A id \in DOMAIN live_games : live_games[id].id = id
    /\ last.op = "add_live_game" =>
           LET q == last.req IN
           /\ Cardinality({g \in db_get_all_live_games : g.id = q.game_id}) = 1
           /\ db_get_live_game_by_id(q.game_id) =
                  LiveGameRecord(q.game_id, q.username, q.score, q.mode,
                                 q.started_at)

====
